---- MODULE Spec2Model ----
(***************************************************************************)
(* Repository layer of the contact book: ContactRepo and MetadataRepo as   *)
(* implemented for Connection over a pooled SQLite store.                  *)
(*                                                                         *)
(* Each repository method is a pure operator from a database value (and    *)
(* the method's inputs) to a database value and a result; the actions      *)
(* apply them to the shared database.  Every SQL statement takes two       *)
(* inputs from the environment: the pooled connection it runs on and       *)
(* whether the store fails it.                                             *)
(***************************************************************************)
EXTENDS Integers, Sequences, FiniteSets, TLC

VARIABLES
    db,       \* the store: both tables, the id sequence, per-connection last_insert_rowid
    last,     \* the most recently completed repository call: its name, argument and result
    updates,  \* number of update_contact calls issued so far
    blank,    \* whether some update_contact call so far carried a present empty string
    pc,       \* per task: where an in-flight update_contact call stands
    args      \* per task: the in-flight call's patch and what the task saw when it called

vars == <<db, last, updates, blank, pc, args>>

----------------------------------------------------------------------------
(* Bounds of the model *)

MaxContacts == 2      \* contact rows ever inserted
MaxUpdates == 1       \* update_contact calls in the sequential specifications
MaxOverlap == 2       \* update_contact calls in the specification of overlapping calls
MaxMetadata == 2      \* contact_metadata rows inserted through MetadataRepo::create
PoolSize == 1         \* connections in the pool
TicksPerMilli == 2    \* clock resolution: ticks per millisecond

Conns == 1..PoolSize
Tasks == {1, 2}
Times == {2 * TicksPerMilli, 2 * TicksPerMilli + 1}
IdInputs == 0..(MaxContacts + 1)

----------------------------------------------------------------------------
(* Results and options *)

Ok(v) == [ok |-> TRUE, val |-> v]
Err(e) == [ok |-> FALSE, err |-> e]
Unit == "()"

None == {}
Some(x) == {x}
Unwrap(opt) == CHOOSE x \in opt : TRUE

----------------------------------------------------------------------------
(* Entities *)

Fields == {"first_name", "last_name", "display_name", "email", "phone_number"}

\* Contact::new: any empty input is a validation error; display_name is derived.
ContactNew(first_name, last_name, email, phone_number) ==
    IF first_name = "" \/ last_name = "" \/ email = "" \/ phone_number = ""
    THEN Err("Validation")
    ELSE Ok([first_name |-> first_name,
             last_name |-> last_name,
             display_name |-> first_name \o " " \o last_name,
             email |-> email,
             phone_number |-> phone_number])

\* ContactBuilder::new: only the id is validated.
ContactBuilderNew(id, update) ==
    IF id <= 0 THEN Err("Validation") ELSE Ok([id |-> id, update |-> update])

\* The Metadata that contact creation builds for a new contact.
MetadataNew(contact_id, now) ==
    [contact_id |-> contact_id,
     starred |-> FALSE,
     is_archived |-> FALSE,
     frequency |-> None,
     created_at |-> now,
     updated_at |-> now,
     last_seen_at |-> None,
     next_reminder_at |-> None,
     last_reminder_at |-> None]

\* to_rfc3339_opts(SecondsFormat::Millis, true): the text keeps whole milliseconds.
ToRfc3339Millis(t) == t \div TicksPerMilli

\* Reading the text back gives the instant at the start of that millisecond.
FromRfc3339(s) == s * TicksPerMilli

\* Option::map over the two conversions.
OptToRfc3339Millis(opt) == IF opt = None THEN None ELSE Some(ToRfc3339Millis(Unwrap(opt)))
OptFromRfc3339(opt) == IF opt = None THEN None ELSE Some(FromRfc3339(Unwrap(opt)))

----------------------------------------------------------------------------
(* The store *)

ContactsTable == "contacts"
MetadataTable == "contact_metadata"
GetByIdTable == "metadata"

\* The tables that exist: the one the contact statements name and the one the
\* schema of the metadata tests creates.  contact_metadata.contact_id carries no
\* UNIQUE and no FOREIGN KEY constraint there.
Schema == {ContactsTable, MetadataTable}

EmptyDb ==
    [contacts |-> <<>>,
     seq |-> 0,
     contact_metadata |-> <<>>,
     last_insert_rowid |-> [c \in Conns |-> 0]]

\* Two ways to get COALESCE wrong: an empty string taken for NULL, and NULL
\* written as an empty string.
CoalesceEmptyAsNull(param, column) ==
    IF param = None \/ param = Some("") THEN column ELSE Unwrap(param)

CoalesceNullAsEmpty(param, column) ==
    IF param = None THEN "" ELSE Unwrap(param)

\* COALESCE($n, column): the parameter when it is not NULL, else the column.
Coalesce(param, column) ==
    IF param = None THEN column ELSE Unwrap(param)

----------------------------------------------------------------------------
(* MetadataRepo for Connection *)

MetadataRow(metadata) ==
    [contact_id |-> metadata.contact_id,
     starred |-> metadata.starred,
     is_archived |-> metadata.is_archived,
     frequency |-> metadata.frequency,
     created_at |-> ToRfc3339Millis(metadata.created_at),
     updated_at |-> ToRfc3339Millis(metadata.updated_at),
     last_seen_at |-> OptToRfc3339Millis(metadata.last_seen_at),
     next_reminder_at |-> OptToRfc3339Millis(metadata.next_reminder_at),
     last_reminder_at |-> OptToRfc3339Millis(metadata.last_reminder_at)]

MetadataFromRow(row) ==
    [contact_id |-> row.contact_id,
     starred |-> row.starred,
     is_archived |-> row.is_archived,
     frequency |-> row.frequency,
     created_at |-> FromRfc3339(row.created_at),
     updated_at |-> FromRfc3339(row.updated_at),
     last_seen_at |-> OptFromRfc3339(row.last_seen_at),
     next_reminder_at |-> OptFromRfc3339(row.next_reminder_at),
     last_reminder_at |-> OptFromRfc3339(row.last_reminder_at)]

\* MetadataRepo::create: one INSERT INTO contact_metadata; returns the new rowid.
create(d, metadata, conn, fault) ==
    IF fault THEN [db |-> d, res |-> Err("Io")]
    ELSE IF MetadataTable \notin Schema
    THEN [db |-> d, res |-> Err("Database")]
    ELSE LET rowid == Len(d.contact_metadata) + 1 IN
         [db |-> [d EXCEPT !.contact_metadata = Append(@, MetadataRow(metadata)),
                           !.last_insert_rowid[conn] = rowid],
          res |-> Ok(rowid)]

\* MetadataRepo::get_by_id: SELECT * FROM metadata WHERE contact_id=$1, fetch_one.
get_by_id(d, contact_id, conn, fault) ==
    IF fault THEN [db |-> d, res |-> Err("Io")]
    ELSE IF GetByIdTable \notin Schema
    THEN [db |-> d, res |-> Err("Database")]
    ELSE LET hits == {i \in 1..Len(d.contact_metadata) :
                         d.contact_metadata[i].contact_id = contact_id} IN
         IF hits = {}
         THEN [db |-> d, res |-> Err("RowNotFound")]
         ELSE LET first == CHOOSE i \in hits : \A j \in hits : i <= j IN
              [db |-> d, res |-> Ok(MetadataFromRow(d.contact_metadata[first]))]

\* create_metadata: the default Metadata for the new contact, stamped now.
create_metadata(d, contact_id, now, conn, fault) ==
    create(d, MetadataNew(contact_id, now), conn, fault)

----------------------------------------------------------------------------
(* ContactRepo for Connection *)

\* The binds of the INSERT with email and phone_number in each other's place.
ContactRowSwapped(contact) ==
    [first_name |-> contact.first_name,
     last_name |-> contact.last_name,
     display_name |-> contact.display_name,
     email |-> contact.phone_number,
     phone_number |-> contact.email]

\* The row the INSERT of create_contact binds, column by column.
ContactRow(contact) ==
    [first_name |-> contact.first_name,
     last_name |-> contact.last_name,
     display_name |-> contact.display_name,
     email |-> contact.email,
     phone_number |-> contact.phone_number]

\* IndexedContact from a row of contacts: the id column and the flattened Contact.
IndexedContactFromRow(id, row) ==
    [id |-> id,
     contact |-> [first_name |-> row.first_name,
                  last_name |-> row.last_name,
                  display_name |-> row.display_name,
                  email |-> row.email,
                  phone_number |-> row.phone_number]]

\* The INSERT INTO contacts statement of create_contact.
InsertContact(d, contact, conn, fault) ==
    IF fault THEN [db |-> d, res |-> Err("Io")]
    ELSE LET id == d.seq + 1 IN
         [db |-> [d EXCEPT !.contacts = (id :> ContactRow(contact)) @@ @,
                           !.seq = id,
                           !.last_insert_rowid[conn] = id],
          res |-> Ok(id)]

\* create_contact as it would be inside one transaction: a failed metadata
\* insert takes the contact insert back.
create_contact_rollback(d, contact, now, conn1, fault1, conn2, fault2) ==
    LET result == InsertContact(d, contact, conn1, fault1) IN
    IF ~result.res.ok THEN result
    ELSE LET contact_id == result.res.val
             meta == create_metadata(result.db, contact_id, now, conn2, fault2) IN
         IF ~meta.res.ok THEN [db |-> d, res |-> meta.res]
         ELSE [db |-> meta.db, res |-> Ok(contact_id)]

\* create_contact: the contact INSERT, then create_metadata for its rowid; either
\* error is returned as it is and nothing is undone.
create_contact(d, contact, now, conn1, fault1, conn2, fault2) ==
    LET result == InsertContact(d, contact, conn1, fault1) IN
    IF ~result.res.ok THEN result
    ELSE LET contact_id == result.res.val
             meta == create_metadata(result.db, contact_id, now, conn2, fault2) IN
         IF ~meta.res.ok THEN meta
         ELSE [db |-> meta.db, res |-> Ok(contact_id)]

\* update_contact as a read followed by a write of the whole row: a call that
\* overlaps another one writes from the row as it was when both were waiting.
update_contact_read_then_write(d, contact, conn, fault) ==
    IF fault THEN [db |-> d, res |-> Err("Io")]
    ELSE IF contact.id \notin DOMAIN d.contacts
    THEN [db |-> d, res |-> Ok(Unit)]
    ELSE LET stale == {t \in DOMAIN args : /\ args[t].peer
                                           /\ args[t].contact.id = contact.id
                                           /\ "first_name" \in DOMAIN args[t].seen}
             row == IF stale = {} THEN d.contacts[contact.id]
                    ELSE args[CHOOSE t \in stale : TRUE].seen IN
         [db |-> [d EXCEPT !.contacts[contact.id] =
                      [f \in Fields |-> Coalesce(contact.update[f], row[f])]],
          res |-> Ok(Unit)]

\* update_contact: one UPDATE ... SET col = COALESCE($n, col) ... WHERE id = $6;
\* the number of rows it touched is not looked at.
update_contact(d, contact, conn, fault) ==
    IF fault THEN [db |-> d, res |-> Err("Io")]
    ELSE IF contact.id \notin DOMAIN d.contacts
    THEN [db |-> d, res |-> Ok(Unit)]
    ELSE LET row == d.contacts[contact.id] IN
         [db |-> [d EXCEPT !.contacts[contact.id] =
                      [f \in Fields |-> Coalesce(contact.update[f], row[f])]],
          res |-> Ok(Unit)]

\* get_contact_by_id: SELECT * FROM contacts WHERE id=$1, fetch_one.
get_contact_by_id(d, id, conn, fault) ==
    IF fault THEN [db |-> d, res |-> Err("Io")]
    ELSE IF id \notin DOMAIN d.contacts
    THEN [db |-> d, res |-> Err("RowNotFound")]
    ELSE [db |-> d, res |-> Ok(IndexedContactFromRow(id, d.contacts[id]))]

\* delete_contact_by_id: DELETE FROM contacts WHERE id=$1 RETURNING id, run with
\* execute; the value returned is the connection's last_insert_rowid.
delete_contact_by_id(d, id, conn, fault) ==
    IF fault THEN [db |-> d, res |-> Err("Io")]
    ELSE [db |-> [d EXCEPT !.contacts =
                     [j \in (DOMAIN d.contacts) \ {id} |-> d.contacts[j]]],
          res |-> Ok(d.last_insert_rowid[conn])]

----------------------------------------------------------------------------
(* Inputs *)

\* Raw field values the front end may hand to Contact::new.
FirstNames == {"", "a", "b"}
LastNames == {"", "c"}
Emails == {"", "e"}
Phones == {"", "p"}

\* The update part of a ContactBuilder: every field absent or present, over vals.
PatchSet(vals) == [Fields -> {None} \cup {Some(v) : v \in vals}]

Present(update) == {f \in Fields : update[f] # None}

AllUpdates == PatchSet({"", "z"})
SmallUpdates == {u \in AllUpdates : Present(u) \subseteq {"email"}}
ConcUpdates ==
    {u \in AllUpdates : /\ Present(u) \subseteq {"email", "phone_number"}
                        /\ u["phone_number"] # Some("")}

\* Metadata values handed to MetadataRepo::create: on or off a millisecond
\* boundary, with and without last_seen_at.
MetadataInputs ==
    {[MetadataNew(cid, t) EXCEPT !.last_seen_at = ls] :
        cid \in 1..MaxContacts, t \in Times,
        ls \in {None, Some(2 * TicksPerMilli + 1)}}

\* Metadata values that differ from the ones contact creation builds.
StarredInputs ==
    {[MetadataNew(cid, 2 * TicksPerMilli) EXCEPT !.starred = TRUE] : cid \in 1..MaxContacts}

\* Which statement of a call the store fails, if any.
Failures == {"none", "first", "second"}

----------------------------------------------------------------------------
(* State *)

NoCall == [op |-> "none"]
NoRow == [absent |-> TRUE]
Idle == [op |-> "none", peer |-> FALSE]

Init ==
    /\ db = EmptyDb
    /\ last = NoCall
    /\ updates = 0
    /\ blank = FALSE
    /\ pc = [t \in Tasks |-> "idle"]
    /\ args = [t \in Tasks |-> Idle]

\* What a read records of the call completed just before it.
Prior(ops) ==
    IF last.op \in ops
    THEN [op |-> last.op, arg |-> last.arg, res |-> last.res]
    ELSE NoCall

Failed(fault) == IF fault THEN "first" ELSE "none"

\* A result as the caller of update_contact sees it.
Returned(res) == IF res.ok THEN [ok |-> TRUE, unit |-> res.val] ELSE res

HasBlank(update) == \E f \in Fields : update[f] = Some("")

----------------------------------------------------------------------------
(* Calls made one at a time: each action is a whole repository method, from *)
(* the values the front end constructs to the result it gets back          *)

CallCreateContact(first_name, last_name, email, phone_number, now, conn1, conn2, fail) ==
    LET built == ContactNew(first_name, last_name, email, phone_number) IN
    /\ built.ok
    /\ LET r == create_contact(db, built.val, now, conn1, fail = "first",
                               conn2, fail = "second") IN
       /\ db' = r.db
       /\ last' = [op |-> "create_contact", arg |-> [contact |-> built.val],
                   res |-> IF r.res.ok THEN [ok |-> TRUE, id |-> r.res.val] ELSE r.res,
                   fail |-> fail, after |-> NoCall]
    /\ UNCHANGED <<updates, blank, pc, args>>

CallUpdateContact(id, update, conn, fault) ==
    LET built == ContactBuilderNew(id, update) IN
    /\ built.ok
    /\ LET r == update_contact(db, built.val, conn, fault) IN
       /\ db' = r.db
       /\ last' = [op |-> "update_contact", arg |-> built.val, res |-> Returned(r.res),
                   fail |-> Failed(fault), after |-> NoCall]
    /\ updates' = updates + 1
    /\ blank' = (blank \/ HasBlank(update))
    /\ UNCHANGED <<pc, args>>

CallGetContactById(id, conn, fault) ==
    LET r == get_contact_by_id(db, id, conn, fault) IN
    /\ db' = r.db
    /\ last' = [op |-> "get_contact_by_id", arg |-> [id |-> id],
                res |-> IF r.res.ok THEN [ok |-> TRUE, found |-> r.res.val] ELSE r.res,
                fail |-> Failed(fault), after |-> Prior({"create_contact"})]
    /\ UNCHANGED <<updates, blank, pc, args>>

CallDeleteContactById(id, conn, fault) ==
    LET r == delete_contact_by_id(db, id, conn, fault) IN
    /\ db' = r.db
    /\ last' = [op |-> "delete_contact_by_id", arg |-> [id |-> id],
                res |-> IF r.res.ok THEN [ok |-> TRUE, id |-> r.res.val] ELSE r.res,
                fail |-> Failed(fault), after |-> NoCall]
    /\ UNCHANGED <<updates, blank, pc, args>>

CallCreate(metadata, conn, fault) ==
    LET r == create(db, metadata, conn, fault) IN
    /\ db' = r.db
    /\ last' = [op |-> "create", arg |-> [metadata |-> metadata],
                res |-> IF r.res.ok THEN [ok |-> TRUE, rowid |-> r.res.val] ELSE r.res,
                fail |-> Failed(fault), after |-> NoCall]
    /\ UNCHANGED <<updates, blank, pc, args>>

CallGetById(contact_id, conn, fault) ==
    LET r == get_by_id(db, contact_id, conn, fault) IN
    /\ db' = r.db
    /\ last' = [op |-> "get_by_id", arg |-> [contact_id |-> contact_id],
                res |-> IF r.res.ok THEN [ok |-> TRUE, metadata |-> r.res.val] ELSE r.res,
                fail |-> Failed(fault), after |-> Prior({"create"})]
    /\ UNCHANGED <<updates, blank, pc, args>>

----------------------------------------------------------------------------
(* update_contact calls in flight together: a task binds its patch, the    *)
(* store runs the task's one UPDATE statement, the task returns            *)

Other(t) == CHOOSE u \in Tasks : u # t

RowOf(d, id) == IF id \in DOMAIN d.contacts THEN d.contacts[id] ELSE NoRow

UpdateBegin(t, id, update) ==
    LET built == ContactBuilderNew(id, update)
        o == Other(t)
        together == pc[o] = "update_contact" /\ args[o].contact.id = id IN
    /\ built.ok
    /\ pc[t] = "idle"
    /\ updates < MaxOverlap
    /\ updates' = updates + 1
    /\ pc' = [pc EXCEPT ![t] = "update_contact"]
    /\ args' = [args EXCEPT
           ![t] = [op |-> "update_contact", contact |-> built.val, peer |-> together,
                   seen |-> IF together THEN RowOf(db, id) ELSE NoRow],
           ![o].peer = FALSE]
    /\ UNCHANGED <<db, last, blank>>

UpdateExec(t, conn, fault) ==
    /\ pc[t] = "update_contact"
    /\ LET r == update_contact(db, args[t].contact, conn, fault) IN
       /\ db' = r.db
       /\ last' = [op |-> "update_contact", arg |-> args[t].contact,
                   res |-> Returned(r.res), fail |-> Failed(fault), after |-> NoCall]
       /\ args' = [args EXCEPT ![t] = [op |-> "update_contact", contact |-> @.contact,
                                       peer |-> @.peer, seen |-> @.seen,
                                       res |-> Returned(r.res)]]
    /\ pc' = [pc EXCEPT ![t] = "returned"]
    /\ blank' = (blank \/ HasBlank(args[t].contact.update))
    /\ UNCHANGED updates

UpdateReturn(t) ==
    /\ pc[t] = "returned"
    /\ pc' = [pc EXCEPT ![t] = "idle"]
    /\ args' = [args EXCEPT ![t] = Idle]
    /\ UNCHANGED <<db, last, updates, blank>>

----------------------------------------------------------------------------
(* Specifications *)

CreateStep ==
    /\ db.seq < MaxContacts
    /\ \E f \in FirstNames, l \in LastNames, e \in Emails, ph \in Phones,
       now \in Times, c1 \in Conns, c2 \in Conns, fail \in Failures :
        CallCreateContact(f, l, e, ph, now, c1, c2, fail)

UpdateStep(patches) ==
    /\ updates < MaxUpdates
    /\ \E id \in IdInputs, u \in patches, c \in Conns, fault \in BOOLEAN :
        CallUpdateContact(id, u, c, fault)

GetStep ==
    \E id \in IdInputs, c \in Conns, fault \in BOOLEAN : CallGetContactById(id, c, fault)

DeleteStep ==
    \E id \in IdInputs, c \in Conns, fault \in BOOLEAN : CallDeleteContactById(id, c, fault)

MetaCreateStep(inputs) ==
    /\ Len(db.contact_metadata) < MaxMetadata
    /\ \E m \in inputs, c \in Conns, fault \in BOOLEAN : CallCreate(m, c, fault)

MetaGetStep ==
    \E id \in IdInputs, c \in Conns, fault \in BOOLEAN : CallGetById(id, c, fault)

\* The contact operations, called one after another.
Next ==
    \/ CreateStep
    \/ UpdateStep(SmallUpdates)
    \/ GetStep
    \/ DeleteStep
    \/ MetaCreateStep(StarredInputs)

Spec == Init /\ [][Next]_vars

\* The metadata operations, called one after another.
NextMeta ==
    \/ CreateStep
    \/ MetaCreateStep(MetadataInputs)
    \/ MetaGetStep

SpecMeta == Init /\ [][NextMeta]_vars

\* Contact creation and every patch over the five fields.
NextMerge ==
    \/ CreateStep
    \/ UpdateStep(AllUpdates)

SpecMerge == Init /\ [][NextMerge]_vars

\* Two tasks whose update_contact calls overlap.  Contacts are created by whole
\* create_contact calls, which touch no existing row.
NextConc ==
    \/ CreateStep
    \/ \E t \in Tasks, id \in 1..MaxContacts, u \in ConcUpdates : UpdateBegin(t, id, u)
    \/ \E t \in Tasks, c \in Conns, fault \in BOOLEAN : UpdateExec(t, c, fault)
    \/ \E t \in Tasks : UpdateReturn(t)

SpecConc == Init /\ [][NextConc]_vars

----------------------------------------------------------------------------
(* Properties *)

MetadataOf(d, id) ==
    {i \in 1..Len(d.contact_metadata) : d.contact_metadata[i].contact_id = id}

Required == {"first_name", "last_name", "email", "phone_number"}

\* What the merge rule says a row becomes under a patch: a present field takes
\* the patch's value, an absent field keeps the stored one.
Merged(row, update) ==
    [f \in Fields |-> IF f \in Present(update) THEN Unwrap(update[f]) ELSE row[f]]

Without(contacts, id) == [j \in (DOMAIN contacts) \ {id} |-> contacts[j]]

\* C1: between calls, every contact row has exactly one contact_metadata row
\* whose contact_id is the contact's id, also in runs where a store call fails.
C1_OneMetadataPerContact ==
    \A id \in DOMAIN db.contacts : Cardinality(MetadataOf(db, id)) = 1

C3_MergeLaw ==
    [][(/\ last'.op = "update_contact"
        /\ last'.res.ok
        /\ last'.arg.id \in DOMAIN db.contacts) =>
          LET id == last'.arg.id
              update == last'.arg.update IN
          /\ DOMAIN db'.contacts = DOMAIN db.contacts
          /\ \A f \in Fields :
                IF update[f] = None
                THEN db'.contacts[id][f] = db.contacts[id][f]
                ELSE update[f] = {db'.contacts[id][f]}
          /\ \A j \in DOMAIN db.contacts : j # id => db'.contacts[j] = db.contacts[j]
          /\ db'.contact_metadata = db.contact_metadata]_vars

\* A patch of the email alone, with another field's case alongside: an explicit
\* empty first_name, applied to an existing row whose display_name stays derived
\* from the names it was created with.
C3_Witness ==
    /\ last.op = "update_contact"
    /\ last.res.ok
    /\ last.arg.id \in DOMAIN db.contacts
    /\ Present(last.arg.update) = {"email", "first_name"}
    /\ db.contacts[last.arg.id].email = "z"
    /\ db.contacts[last.arg.id].first_name = ""
    /\ db.contacts[last.arg.id].display_name = "a c"
    /\ Cardinality(DOMAIN db.contacts) = 2

\* C4: update_contact with a patch whose id matches no contact row fails with
\* a not-found error and leaves the store unchanged.
C4_UpdateMissingIsNotFound ==
    [][(/\ last'.op = "update_contact"
        /\ last'.fail = "none"
        /\ last'.arg.id \notin DOMAIN db.contacts) =>
          /\ last'.res = Err("RowNotFound")
          /\ db' = db]_vars

\* C5: delete_contact_by_id of an id that exists succeeds, returns that id,
\* removes that row and leaves every other contact row unchanged.
C5_DeleteReturnsId ==
    [][(/\ last'.op = "delete_contact_by_id"
        /\ last'.fail = "none"
        /\ last'.arg.id \in DOMAIN db.contacts) =>
          /\ last'.res = [ok |-> TRUE, id |-> last'.arg.id]
          /\ db'.contacts = Without(db.contacts, last'.arg.id)]_vars

\* C6: get_contact_by_id and delete_contact_by_id of an id that matches no
\* contact row both return a not-found failure and leave the store unchanged.
C6_MissingIsNotFound ==
    [][(/\ last'.op \in {"get_contact_by_id", "delete_contact_by_id"}
        /\ last'.fail = "none"
        /\ last'.arg.id \notin DOMAIN db.contacts) =>
          /\ last'.res = Err("RowNotFound")
          /\ db' = db]_vars

\* C7: when create_contact(c) succeeds with id r, a get_contact_by_id(r) that
\* follows it immediately succeeds and returns the IndexedContact of r and c,
\* equal to c in all five fields.
C7_CreateGetRoundTrip ==
    (/\ last.op = "get_contact_by_id"
     /\ last.fail = "none"
     /\ last.after.op = "create_contact"
     /\ last.after.res.ok
     /\ last.arg.id = last.after.res.id) =>
        last.res = [ok |-> TRUE,
                    found |-> [id |-> last.after.res.id,
                               contact |-> last.after.arg.contact]]

C7_Witness ==
    /\ last.op = "get_contact_by_id"
    /\ last.fail = "none"
    /\ last.after.op = "create_contact"
    /\ last.after.res.ok
    /\ last.arg.id = last.after.res.id
    /\ last.res.ok
    /\ last.res.found.contact.display_name = "b c"
    /\ last.res.found.id = 2

\* C8: after MetadataRepo::create(m) succeeds, get_by_id(m.contact_id) succeeds
\* and returns a Metadata equal to m.
C8_MetadataRoundTrip ==
    (/\ last.op = "get_by_id"
     /\ last.fail = "none"
     /\ last.after.op = "create"
     /\ last.after.res.ok
     /\ last.arg.contact_id = last.after.arg.metadata.contact_id) =>
        last.res = [ok |-> TRUE, metadata |-> last.after.arg.metadata]

\* C9: every stored contact row has non-empty first_name, last_name, email and
\* phone_number, whatever valid contacts were created and valid patches applied.
C9_RequiredNonEmpty ==
    \A id \in DOMAIN db.contacts : \A f \in Required : db.contacts[id][f] # ""

\* C9, amended: the same, in runs where no patch carried a present empty string.
C9_RequiredNonEmptyUnlessBlanked ==
    ~blank => \A id \in DOMAIN db.contacts : \A f \in Required : db.contacts[id][f] # ""

C9_Witness ==
    /\ ~blank
    /\ last.op = "update_contact"
    /\ last.res.ok
    /\ last.arg.id \in DOMAIN db.contacts
    /\ Present(last.arg.update) = {"email"}
    /\ db.contacts[last.arg.id].email = "z"

\* The two calls of an overlapping pair: t called while the other task's call
\* on the same existing row was waiting for the store, and both have returned.
Overlapped(t) ==
    /\ pc[t] = "returned"
    /\ pc[Other(t)] = "returned"
    /\ args[t].peer
    /\ args[t].seen # NoRow
    /\ args[t].res.ok
    /\ args[Other(t)].res.ok

\* C10: when two update_contact calls on the same existing id overlap, the row
\* afterwards is what the two patches give applied one after the other in one
\* of the two orders; fields that only one of the patches sets hold its value.
C10_OverlappingUpdatesSerialize ==
    \A t \in Tasks :
        Overlapped(t) =>
            LET id == args[t].contact.id
                mine == args[t].contact.update
                theirs == args[Other(t)].contact.update
                row == db.contacts[id] IN
            /\ row \in {Merged(Merged(args[t].seen, mine), theirs),
                        Merged(Merged(args[t].seen, theirs), mine)}
            /\ \A f \in Present(mine) \ Present(theirs) : mine[f] = {row[f]}
            /\ \A f \in Present(theirs) \ Present(mine) : theirs[f] = {row[f]}

C10_Witness ==
    \E t \in Tasks :
        /\ Overlapped(t)
        /\ Present(args[t].contact.update) = {"email"}
        /\ Present(args[Other(t)].contact.update) = {"phone_number"}
        /\ db.contacts[args[t].contact.id].email = "z"
        /\ db.contacts[args[t].contact.id].phone_number = "z"

====
